---------------------------- MODULE Spec2Model ----------------------------
(* Model of src/sudoku.cpp: class Sudoku (puzzle generation, solve()) and   *)
(* the free function bruteForceSolver.  Recursion is modelled with an       *)
(* explicit call stack; the random number generator by a bounded set of     *)
(* shuffle outcomes.  Boards are indexed from 0 as in the source.           *)
EXTENDS Integers, Sequences, FiniteSets, TLC

VARIABLES
    size,       \* Sudoku::size
    boxSize,    \* Sudoku::boxSize
    solver,     \* Sudoku::solver is non-null
    board,      \* Sudoku::board
    solution,   \* Sudoku::solution
    steps,      \* Sudoku::steps
    pc,         \* which function of the program is running
    diag,       \* loop variable i of fillDiagonalBoxes
    stack,      \* call stack of the running recursive function
    ret,        \* value returned by the call that returned last
    isSolved,   \* value returned by the last bruteForceSolver call
    genResult,  \* history: value returned by generatePuzzle's solveBoard call
    puzzle,     \* history: board as the constructor left it
    calls,      \* history: number of solver invocations so far
    board0,     \* history: board when the running search was called
    steps0,     \* history: steps when the running search was called
    cnt,        \* history: placements, filled-cell advances, row wraps
    visited,    \* history: (row, col, board) at every backtrack entry
    revisited   \* history: some backtrack entry repeated an earlier one

vars == <<size, boxSize, solver, board, solution, steps, pc, diag, stack, ret,
          isSolved, genResult, puzzle, calls, board0, steps0, cnt, visited,
          revisited>>

-----------------------------------------------------------------------------
(* Bounds *)

\* grid sizes explored (sizes with an integer square root)
Sizes == {1, 4}
\* a shuffle outcome is at most this many adjacent transpositions away from
\* the order it was given
MaxSwaps == 1
\* a caller's grid is a seeded or solved grid with at most this many further
\* cells blanked
MaxBlank == 1
\* solve() calls made on one Sudoku object
MaxSolveCalls == 2

-----------------------------------------------------------------------------
(* Program constants *)

\* DEFAULT_DIFFICULTY = 0.7 as the fraction DifficultyNum / DifficultyDen
DifficultyNum == 7
DifficultyDen == 10

-----------------------------------------------------------------------------
(* Grid primitives *)

Idx(n) == 0 .. n - 1

Cells(n) == Idx(n) \X Idx(n)

\* static_cast<int>(sqrt(boardSize))
BoxSizeOf(n) == CHOOSE b \in 0 .. n : b * b <= n /\ (b + 1) * (b + 1) > n

createEmptyBoard(n) == [i \in Idx(n) |-> [j \in Idx(n) |-> 0]]

isValidInRow(b, n, row, num) == \A j \in Idx(n) : b[row][j] # num

isValidInColumnSkipped(b, n, col, num) == TRUE
isValidInColumn(b, n, col, num) == \A i \in Idx(n) : b[i][col] # num

isValidInBox(b, bs, row, col, num) ==
    LET boxRow == row - (row % bs)
        boxCol == col - (col % bs)
    IN  \A i \in Idx(bs), j \in Idx(bs) : b[boxRow + i][boxCol + j] # num

isValidPlacement(b, n, bs, row, col, num) ==
    /\ isValidInRow(b, n, row, num)
    /\ isValidInColumn(b, n, col, num)
    /\ isValidInBox(b, bs, row, col, num)

NoCell == <<-1, -1>>

\* first empty cell in row-major order, NoCell when the board is full
findEmptyCell(b, n) ==
    LET empties == {k \in 0 .. n * n - 1 : b[k \div n][k % n] = 0}
    IN  IF empties = {} THEN NoCell
        ELSE LET k == CHOOSE e \in empties : \A f \in empties : e <= f
             IN  <<k \div n, k % n>>

\* the for loop over num, taking the last valid num instead of the first
NextValidLast(b, n, bs, row, col, from) ==
    LET ok == {num \in from .. n : isValidPlacement(b, n, bs, row, col, num)}
    IN  IF ok = {} THEN n + 1
        ELSE CHOOSE num \in ok : \A m \in ok : num >= m

\* the for loop over num: first num >= from that is a valid placement,
\* n + 1 when the loop runs out
NextValid(b, n, bs, row, col, from) ==
    LET ok == {num \in from .. n : isValidPlacement(b, n, bs, row, col, num)}
    IN  IF ok = {} THEN n + 1
        ELSE CHOOSE num \in ok : \A m \in ok : num <= m

\* ++num after an undone placement
NextNumSame(num) == num
NextNum(num) == num + 1

\* board[row][col] = 0 after a failed recursive call
UndoKept(b, row, col) == b
Undo(b, row, col) == [b EXCEPT ![row][col] = 0]

-----------------------------------------------------------------------------
(* Random shuffles *)

SwapAt(s, i) == [s EXCEPT ![i] = s[i + 1], ![i + 1] = s[i]]

RECURSIVE ShufflesWithin(_, _)
ShufflesWithin(s, k) ==
    IF k = 0 THEN {s}
    ELSE LET prev == ShufflesWithin(s, k - 1)
         IN  prev \cup {SwapAt(p, i) : p \in prev, i \in 1 .. Len(s) - 1}

\* outcomes of shuffle(begin, end, rng)
Shuffles(s) == ShufflesWithin(s, MaxSwaps)

\* iota(numbers.begin(), numbers.end(), 1)
Iota(n) == [k \in 1 .. n |-> k]

\* allCells of removeDigits, row-major
AllCells(n) == [k \in 1 .. n * n |-> <<(k - 1) \div n, (k - 1) % n>>]

-----------------------------------------------------------------------------
(* Generator *)

fillBox(b, bs, startRow, startCol, numbers) ==
    [i \in DOMAIN b |->
        [j \in DOMAIN b[i] |->
            IF /\ i >= startRow /\ i < startRow + bs
               /\ j >= startCol /\ j < startCol + bs
            THEN numbers[(i - startRow) * bs + (j - startCol) + 1]
            ELSE b[i][j]]]

\* static_cast<int>(size * size * difficulty)
CellsToRemove(n) == (n * n * DifficultyNum) \div DifficultyDen

Min(a, b) == IF a <= b THEN a ELSE b

removeDigits(b, n, shuffled) ==
    LET k == Min(CellsToRemove(n), Len(shuffled))
        gone == {shuffled[i] : i \in 1 .. k}
    IN  [i \in DOMAIN b |->
            [j \in DOMAIN b[i] |-> IF <<i, j>> \in gone THEN 0 ELSE b[i][j]]]

\* steps is initialised to 0 by the constructor
InitialSteps == 0

\* solveBoard never touches the step counter
SolveBoardStepsCounted(s) == s + 1
SolveBoardSteps(s) == s

-----------------------------------------------------------------------------
(* Call stack *)

Frame(row, col) == [row |-> row, col |-> col, num |-> 0, at |-> "enter"]

Top == stack[Len(stack)]

Pop == SubSeq(stack, 1, Len(stack) - 1)

SetTop(f) == [stack EXCEPT ![Len(stack)] = f]

NoCount == [place |-> 0, given |-> 0, wrap |-> 0]

-----------------------------------------------------------------------------
(* Sudoku::Sudoku and generatePuzzle *)

Init ==
    /\ size \in Sizes
    /\ boxSize = BoxSizeOf(size)
    /\ solver \in BOOLEAN
    /\ board = createEmptyBoard(size)
    /\ solution = createEmptyBoard(size)
    /\ steps = InitialSteps
    /\ pc = "fillDiagonalBoxes"
    /\ diag = 0
    /\ stack = <<>>
    /\ ret = "none"
    /\ isSolved = "none"
    /\ genResult = "none"
    /\ puzzle = createEmptyBoard(size)
    /\ calls = 0
    /\ board0 = createEmptyBoard(size)
    /\ steps0 = 0
    /\ cnt = NoCount
    /\ visited = {}
    /\ revisited = FALSE

\* one iteration of the loop of fillDiagonalBoxes: fillBox(i, i)
FillBox ==
    /\ pc = "fillDiagonalBoxes"
    /\ diag < size
    /\ \E numbers \in Shuffles(Iota(size)) :
          board' = fillBox(board, boxSize, diag, diag, numbers)
    /\ diag' = diag + boxSize
    /\ UNCHANGED <<size, boxSize, solver, solution, steps, pc, stack, ret,
                   isSolved, genResult, puzzle, calls, board0, steps0, cnt,
                   visited, revisited>>

\* generatePuzzle calls solveBoard(board)
CallSolveBoard ==
    /\ pc = "fillDiagonalBoxes"
    /\ diag >= size
    /\ pc' = "solveBoard"
    /\ stack' = <<Frame(0, 0)>>
    /\ ret' = "none"
    /\ board0' = board
    /\ UNCHANGED <<size, boxSize, solver, board, solution, steps, diag,
                   isSolved, genResult, puzzle, calls, steps0, cnt, visited,
                   revisited>>

\* solveBoard returned to generatePuzzle, which ignores the result:
\* solution = board
CaptureSolution ==
    /\ pc = "solveBoard"
    /\ stack = <<>>
    /\ ret # "none"
    /\ genResult' = ret
    /\ ret' = "none"
    /\ solution' = board
    /\ pc' = "removeDigits"
    /\ UNCHANGED <<size, boxSize, solver, board, steps, diag, stack, isSolved,
                   puzzle, calls, board0, steps0, cnt, visited, revisited>>

\* removeDigits(DEFAULT_DIFFICULTY), after which the constructor returns
RemoveDigits ==
    /\ pc = "removeDigits"
    /\ \E shuffled \in Shuffles(AllCells(size)) :
          /\ board' = removeDigits(board, size, shuffled)
          /\ puzzle' = removeDigits(board, size, shuffled)
    /\ pc' = "constructed"
    /\ UNCHANGED <<size, boxSize, solver, solution, steps, diag, stack, ret,
                   isSolved, genResult, calls, board0, steps0, cnt, visited,
                   revisited>>

-----------------------------------------------------------------------------
(* Sudoku::solveBoard, one action per step of the top frame *)

InSolveBoard == pc = "solveBoard" /\ stack # <<>>

\* findEmptyCell found nothing: return true
SbFull ==
    /\ InSolveBoard
    /\ Top.at = "enter"
    /\ findEmptyCell(board, size) = NoCell
    /\ stack' = Pop
    /\ ret' = "true"
    /\ steps' = SolveBoardSteps(steps)
    /\ UNCHANGED <<size, boxSize, solver, board, solution, pc, diag, isSolved,
                   genResult, puzzle, calls, board0, steps0, cnt, visited,
                   revisited>>

\* auto [row, col] = emptyCell.value(); num = 1
SbEmpty ==
    /\ InSolveBoard
    /\ Top.at = "enter"
    /\ findEmptyCell(board, size) # NoCell
    /\ LET cell == findEmptyCell(board, size)
       IN  stack' = SetTop([row |-> cell[1], col |-> cell[2], num |-> 1,
                            at |-> "loop"])
    /\ steps' = SolveBoardSteps(steps)
    /\ UNCHANGED <<size, boxSize, solver, board, solution, pc, diag, ret,
                   isSolved, genResult, puzzle, calls, board0, steps0, cnt,
                   visited, revisited>>

\* the loop reaches a valid num: place it and recurse
SbPlace ==
    /\ InSolveBoard
    /\ Top.at = "loop"
    /\ LET num == NextValid(board, size, boxSize, Top.row, Top.col, Top.num)
       IN  /\ num <= size
           /\ board' = [board EXCEPT ![Top.row][Top.col] = num]
           /\ stack' = Append(SetTop([Top EXCEPT !.num = num, !.at = "wait"]),
                              Frame(0, 0))
    /\ UNCHANGED <<size, boxSize, solver, solution, steps, pc, diag, ret,
                   isSolved, genResult, puzzle, calls, board0, steps0, cnt,
                   visited, revisited>>

\* the loop runs out: return false
SbExhaust ==
    /\ InSolveBoard
    /\ Top.at = "loop"
    /\ NextValid(board, size, boxSize, Top.row, Top.col, Top.num) > size
    /\ stack' = Pop
    /\ ret' = "false"
    /\ UNCHANGED <<size, boxSize, solver, board, solution, steps, pc, diag,
                   isSolved, genResult, puzzle, calls, board0, steps0, cnt,
                   visited, revisited>>

\* the recursive call returned true: board = targetBoard; return true
SbSucceed ==
    /\ InSolveBoard
    /\ Top.at = "wait"
    /\ ret = "true"
    /\ stack' = Pop
    /\ UNCHANGED <<size, boxSize, solver, board, solution, steps, pc, diag,
                   ret, isSolved, genResult, puzzle, calls, board0, steps0,
                   cnt, visited, revisited>>

\* the recursive call returned false: targetBoard[row][col] = 0; ++num
SbUndo ==
    /\ InSolveBoard
    /\ Top.at = "wait"
    /\ ret = "false"
    /\ board' = Undo(board, Top.row, Top.col)
    /\ stack' = SetTop([Top EXCEPT !.num = NextNum(Top.num), !.at = "loop"])
    /\ ret' = "none"
    /\ UNCHANGED <<size, boxSize, solver, solution, steps, pc, diag, isSolved,
                   genResult, puzzle, calls, board0, steps0, cnt, visited,
                   revisited>>

-----------------------------------------------------------------------------
(* Sudoku::solve *)

Idle == pc \in {"constructed", "returned"}

\* if (!solver) throw runtime_error(...)
SolveThrow ==
    /\ Idle
    /\ ~solver
    /\ pc' = "thrown"
    /\ UNCHANGED <<size, boxSize, solver, board, solution, steps, diag, stack,
                   ret, isSolved, genResult, puzzle, calls, board0, steps0,
                   cnt, visited, revisited>>

\* displayBoard(); sleep; solver(*this, ...): bruteForceSolver calls
\* backtrack(0, 0)
Solve ==
    /\ Idle
    /\ solver
    /\ calls < MaxSolveCalls
    /\ pc' = "bruteForceSolver"
    /\ stack' = <<Frame(0, 0)>>
    /\ ret' = "none"
    /\ calls' = calls + 1
    /\ board0' = board
    /\ steps0' = steps
    /\ cnt' = NoCount
    /\ visited' = {}
    /\ revisited' = FALSE
    /\ UNCHANGED <<size, boxSize, solver, board, solution, steps, diag,
                   isSolved, genResult, puzzle>>

-----------------------------------------------------------------------------
(* bruteForceSolver: the lambda backtrack, one action per step of the top   *)
(* frame.  displayFunction() and the sleeps change no state.                *)

InBacktrack == pc = "bruteForceSolver" /\ stack # <<>>

\* sudoku.getSteps()++
StepsAfterEntryKept(s) == s
StepsAfterEntry(s) == s + 1

\* sudoku.getBoard()[row][col] != 0
IsFilledNever(b, row, col) == FALSE
IsFilled(b, row, col) == b[row][col] # 0

\* every entry of backtrack: the step counter and the history of entries
Enter ==
    /\ steps' = StepsAfterEntry(steps)
    /\ visited' = visited \cup {<<Top.row, Top.col, board>>}
    /\ revisited' = (revisited \/ <<Top.row, Top.col, board>> \in visited)

\* col == size: return backtrack(row + 1, 0)
BtWrap ==
    /\ InBacktrack
    /\ Top.at = "enter"
    /\ Top.col = size
    /\ Enter
    /\ stack' = Append(SetTop([Top EXCEPT !.at = "tail"]),
                       Frame(Top.row + 1, 0))
    /\ cnt' = [cnt EXCEPT !.wrap = @ + 1]
    /\ UNCHANGED <<size, boxSize, solver, board, solution, pc, diag, ret,
                   isSolved, genResult, puzzle, calls, board0, steps0>>

\* row == size: return true
BtComplete ==
    /\ InBacktrack
    /\ Top.at = "enter"
    /\ Top.col # size
    /\ Top.row = size
    /\ Enter
    /\ stack' = Pop
    /\ ret' = "true"
    /\ UNCHANGED <<size, boxSize, solver, board, solution, pc, diag, isSolved,
                   genResult, puzzle, calls, board0, steps0, cnt>>

\* the cell is filled: return backtrack(row, col + 1)
BtGiven ==
    /\ InBacktrack
    /\ Top.at = "enter"
    /\ Top.col # size
    /\ Top.row # size
    /\ IsFilled(board, Top.row, Top.col)
    /\ Enter
    /\ stack' = Append(SetTop([Top EXCEPT !.at = "tail"]),
                       Frame(Top.row, Top.col + 1))
    /\ cnt' = [cnt EXCEPT !.given = @ + 1]
    /\ UNCHANGED <<size, boxSize, solver, board, solution, pc, diag, ret,
                   isSolved, genResult, puzzle, calls, board0, steps0>>

\* the cell is empty: enter the loop with num = 1
BtEmpty ==
    /\ InBacktrack
    /\ Top.at = "enter"
    /\ Top.col # size
    /\ Top.row # size
    /\ ~IsFilled(board, Top.row, Top.col)
    /\ Enter
    /\ stack' = SetTop([Top EXCEPT !.num = 1, !.at = "loop"])
    /\ UNCHANGED <<size, boxSize, solver, board, solution, pc, diag, ret,
                   isSolved, genResult, puzzle, calls, board0, steps0, cnt>>

\* the loop reaches a valid num: place it, displayFunction(), recurse
BtPlace ==
    /\ InBacktrack
    /\ Top.at = "loop"
    /\ LET num == NextValid(board, size, boxSize, Top.row, Top.col, Top.num)
       IN  /\ num <= size
           /\ board' = [board EXCEPT ![Top.row][Top.col] = num]
           /\ stack' = Append(SetTop([Top EXCEPT !.num = num, !.at = "wait"]),
                              Frame(Top.row, Top.col + 1))
    /\ cnt' = [cnt EXCEPT !.place = @ + 1]
    /\ UNCHANGED <<size, boxSize, solver, solution, steps, pc, diag, ret,
                   isSolved, genResult, puzzle, calls, board0, steps0,
                   visited, revisited>>

\* the loop runs out: return false
BtExhaust ==
    /\ InBacktrack
    /\ Top.at = "loop"
    /\ NextValid(board, size, boxSize, Top.row, Top.col, Top.num) > size
    /\ stack' = Pop
    /\ ret' = "false"
    /\ UNCHANGED <<size, boxSize, solver, board, solution, steps, pc, diag,
                   isSolved, genResult, puzzle, calls, board0, steps0, cnt,
                   visited, revisited>>

\* the recursive call returned true: return true
BtSucceed ==
    /\ InBacktrack
    /\ Top.at = "wait"
    /\ ret = "true"
    /\ stack' = Pop
    /\ UNCHANGED <<size, boxSize, solver, board, solution, steps, pc, diag,
                   ret, isSolved, genResult, puzzle, calls, board0, steps0,
                   cnt, visited, revisited>>

\* the recursive call returned false: reset the cell, displayFunction(),
\* ++num
BtUndo ==
    /\ InBacktrack
    /\ Top.at = "wait"
    /\ ret = "false"
    /\ board' = Undo(board, Top.row, Top.col)
    /\ stack' = SetTop([Top EXCEPT !.num = NextNum(Top.num), !.at = "loop"])
    /\ ret' = "none"
    /\ UNCHANGED <<size, boxSize, solver, solution, steps, pc, diag, isSolved,
                   genResult, puzzle, calls, board0, steps0, cnt, visited,
                   revisited>>

\* return backtrack(...) passes the callee's result on
BtTailReturn ==
    /\ InBacktrack
    /\ Top.at = "tail"
    /\ ret # "none"
    /\ stack' = Pop
    /\ UNCHANGED <<size, boxSize, solver, board, solution, steps, pc, diag,
                   ret, isSolved, genResult, puzzle, calls, board0, steps0,
                   cnt, visited, revisited>>

\* bool isSolved = backtrack(0, 0); report; return isSolved (and solve()
\* returns it)
BtFinish ==
    /\ pc = "bruteForceSolver"
    /\ stack = <<>>
    /\ ret # "none"
    /\ isSolved' = ret
    /\ ret' = "none"
    /\ pc' = "returned"
    /\ UNCHANGED <<size, boxSize, solver, board, solution, steps, diag, stack,
                   genResult, puzzle, calls, board0, steps0, cnt, visited,
                   revisited>>

-----------------------------------------------------------------------------
(* The program: construct a Sudoku, then call solve() on it *)

Next ==
    \/ FillBox \/ CallSolveBoard
    \/ SbFull \/ SbEmpty \/ SbPlace \/ SbExhaust \/ SbSucceed \/ SbUndo
    \/ CaptureSolution \/ RemoveDigits
    \/ SolveThrow \/ Solve
    \/ BtWrap \/ BtComplete \/ BtGiven \/ BtEmpty \/ BtPlace \/ BtExhaust
    \/ BtSucceed \/ BtUndo \/ BtTailReturn \/ BtFinish

Spec == Init /\ [][Next]_vars

-----------------------------------------------------------------------------
(* Solved and partial grids *)

\* the rows, the columns and the boxes, each as a set of cells
Units(n, bs) ==
    {{<<i, j>> : j \in Idx(n)} : i \in Idx(n)}
    \cup {{<<i, j>> : i \in Idx(n)} : j \in Idx(n)}
    \cup {{<<bi * bs + i, bj * bs + j>> : i \in Idx(bs), j \in Idx(bs)} :
             bi \in Idx(bs), bj \in Idx(bs)}

\* no nonzero value is repeated in a row, a column or a box
IsValidPartial(b, n, bs) ==
    \A u \in Units(n, bs) : \A c \in u, d \in u :
        (c # d /\ b[c[1]][c[2]] # 0) => b[c[1]][c[2]] # b[d[1]][d[2]]

\* every row, column and box holds each of 1..n exactly once
IsSolved(b, n, bs) ==
    /\ \A c \in Cells(n) : b[c[1]][c[2]] \in 1 .. n
    /\ \A u \in Units(n, bs) : \A v \in 1 .. n :
          Cardinality({c \in u : b[c[1]][c[2]] = v}) = 1

NumZeros(b, n) == Cardinality({c \in Cells(n) : b[c[1]][c[2]] = 0})

\* h keeps every filled cell of g
Extends(h, g, n) ==
    \A c \in Cells(n) : g[c[1]][c[2]] # 0 => h[c[1]][c[2]] = g[c[1]][c[2]]

RowPerms(n) ==
    {r \in [Idx(n) -> 1 .. n] : \A i \in Idx(n), j \in Idx(n) :
                                    i # j => r[i] # r[j]}

\* the valid grids whose first k rows are full and whose other rows are empty
RECURSIVE FullRows(_, _, _)
FullRows(n, bs, k) ==
    IF k = 0 THEN {createEmptyBoard(n)}
    ELSE {g \in {[p EXCEPT ![k - 1] = r] :
                    p \in FullRows(n, bs, k - 1), r \in RowPerms(n)} :
             IsValidPartial(g, n, bs)}

\* all solved grids, by size
SolvedGrids == [n \in Sizes |-> FullRows(n, BoxSizeOf(n), n)]

\* the completions of g: the solved grids that keep its filled cells
Completions(g, n) == {h \in SolvedGrids[n] : Extends(h, g, n)}

-----------------------------------------------------------------------------
(* The two searches, each from the grids it can be called on *)

\* the boards fillDiagonalBoxes can leave, from box i on
RECURSIVE SeedsFrom(_, _, _, _)
SeedsFrom(b, n, bs, i) ==
    IF i >= n THEN {b}
    ELSE UNION {SeedsFrom(fillBox(b, bs, i, i, numbers), n, bs, i + bs) :
                   numbers \in Shuffles(Iota(n))}

SeedBoards(n) == SeedsFrom(createEmptyBoard(n), n, BoxSizeOf(n), 0)

\* the boards fillDiagonalBoxes passes through, the empty board included
RECURSIVE SeedStagesFrom(_, _, _, _)
SeedStagesFrom(b, n, bs, i) ==
    IF i >= n THEN {b}
    ELSE {b} \cup
         UNION {SeedStagesFrom(fillBox(b, bs, i, i, numbers), n, bs, i + bs) :
                   numbers \in Shuffles(Iota(n))}

SeedStages(n) == SeedStagesFrom(createEmptyBoard(n), n, BoxSizeOf(n), 0)

Blank(b, c) == [b EXCEPT ![c[1]][c[2]] = 0]

RECURSIVE BlankedWithin(_, _, _)
BlankedWithin(G, n, k) ==
    IF k = 0 THEN G
    ELSE LET prev == BlankedWithin(G, n, k - 1)
         IN  prev \cup {Blank(b, c) : b \in prev, c \in Cells(n)}

\* grids a caller hands to bruteForceSolver: the boards of every stage of
\* seeding and the completions of the seeded boards, with up to MaxBlank
\* cells blanked
CallerGrids(n) ==
    BlankedWithin(SeedStages(n)
                  \cup {h \in SolvedGrids[n] :
                           \E g \in SeedBoards(n) : Extends(h, g, n)},
                  n, MaxBlank)

InitSearch ==
    /\ size \in Sizes
    /\ boxSize = BoxSizeOf(size)
    /\ solver = TRUE
    /\ \/ /\ pc = "solveBoard"
          /\ board \in SeedBoards(size)
          /\ calls = 0
       \/ /\ pc = "bruteForceSolver"
          /\ board \in CallerGrids(size)
          /\ calls = 1
    /\ solution = createEmptyBoard(size)
    /\ steps = InitialSteps
    /\ diag = size
    /\ stack = <<Frame(0, 0)>>
    /\ ret = "none"
    /\ isSolved = "none"
    /\ genResult = "none"
    /\ puzzle = board
    /\ board0 = board
    /\ steps0 = steps
    /\ cnt = NoCount
    /\ visited = {}
    /\ revisited = FALSE

NextSearch ==
    \/ SbFull \/ SbEmpty \/ SbPlace \/ SbExhaust \/ SbSucceed \/ SbUndo
    \/ BtWrap \/ BtComplete \/ BtGiven \/ BtEmpty \/ BtPlace \/ BtExhaust
    \/ BtSucceed \/ BtUndo \/ BtTailReturn \/ BtFinish

SearchSpec == InitSearch /\ [][NextSearch]_vars

\* a call of a terminating function is not suspended forever
FairSearchSpec == SearchSpec /\ WF_vars(NextSearch)

-----------------------------------------------------------------------------
(* Properties *)

\* a bruteForceSolver call has returned
Returned == pc = "returned"

\* a solveBoard call has returned to its caller
SolveBoardReturned == pc = "solveBoard" /\ stack = <<>> /\ ret # "none"

\* C1: once generatePuzzle's completion search has run, it has succeeded and
\* the captured Solution has each of 1..size exactly once in every row,
\* column and box.
C1_SolutionSolved ==
    genResult # "none" =>
        /\ genResult = "true"
        /\ IsSolved(solution, size, boxSize)

\* C2: on a valid partial grid bruteForceSolver returns true exactly when the
\* grid has a completion, and then it leaves a full, solved grid.
C2_SolverDecides ==
    (Returned /\ IsValidPartial(board0, size, boxSize)) =>
        /\ (isSolved = "true") <=> (Completions(board0, size) # {})
        /\ isSolved = "true" =>
              /\ NumZeros(board, size) = 0
              /\ IsSolved(board, size, boxSize)

\* a search over a valid partial grid placed digits, undid them all and
\* reported failure
C2_Witness ==
    /\ Returned
    /\ isSolved = "false"
    /\ IsValidPartial(board0, size, boxSize)
    /\ cnt.place > 0

\* the cells filled at call start hold their value
GivensKept ==
    \A c \in Cells(size) :
        board0[c[1]][c[2]] # 0 => board[c[1]][c[2]] = board0[c[1]][c[2]]

\* C3: throughout a bruteForceSolver call and at its return, every cell that
\* was filled at call start holds the same value, and every write goes to a
\* cell that was empty at call start.
C3_GivensPreserved ==
    /\ [](pc \in {"bruteForceSolver", "returned"} => GivensKept)
    /\ [][pc = "bruteForceSolver" =>
            \A c \in Cells(size) :
                board'[c[1]][c[2]] # board[c[1]][c[2]]
                    => board0[c[1]][c[2]] = 0]_vars

\* a search that skipped filled cells, placed and undid digits, and succeeded
C3_Witness ==
    /\ Returned
    /\ isSolved = "true"
    /\ cnt.given > 0
    /\ cnt.place > NumZeros(board0, size)

\* C4: after construction the puzzle has exactly
\* min(floor(size * size * difficulty), size * size) empty cells.
C4_RemovalCount ==
    pc = "constructed" =>
        NumZeros(board, size) = Min(CellsToRemove(size), size * size)

C6_EmptyAtThrow ==
    pc = "thrown" => board = createEmptyBoard(size)

\* C6 as amended: when solve() throws for want of a solver, no solver has
\* been invoked and solve() has changed nothing: the grid is the puzzle the
\* constructor left and the step counter is 0.  Generation has already run in
\* the constructor: the diagonal boxes were seeded, the completion search has
\* returned and the digits were removed.
C6_ThrowBeforeSolver ==
    pc = "thrown" =>
        /\ board = puzzle
        /\ steps = 0
        /\ calls = 0
        /\ stack = <<>>
        /\ genResult # "none"
        /\ NumZeros(solution, size) <= size * size - size * boxSize
        /\ NumZeros(board, size) >= Min(CellsToRemove(size), size * size)

\* solve() threw on a Sudoku whose grid is not empty
C6_Witness ==
    /\ pc = "thrown"
    /\ ~solver
    /\ NumZeros(board, size) < size * size

\* C7: a bruteForceSolver call returns a definite boolean, and no entry of
\* backtrack sees a (cell, grid) configuration an earlier entry of the same
\* call saw.
C7_Terminates ==
    /\ (pc = "bruteForceSolver") ~> (Returned /\ isSolved \in {"true", "false"})
    /\ [](~revisited)

\* a call that returned after undoing placements
C7_Witness ==
    /\ Returned
    /\ isSolved \in {"true", "false"}
    /\ cnt.place > NumZeros(board0, size)

\* C8: every solver invocation made through solve() starts with the step
\* counter at 0.
C8_StepsZeroAtInvocation ==
    pc = "bruteForceSolver" => steps0 = 0

\* row-major index of a cell
RowMajor(c, n) == c[1] * n + c[2]

\* a is no larger than h when the cells empty in g are read in row-major order
LexLeq(a, h, g, n) ==
    LET E == {c \in Cells(n) : g[c[1]][c[2]] = 0}
    IN  \/ \A c \in E : a[c[1]][c[2]] = h[c[1]][c[2]]
        \/ \E c \in E :
              /\ a[c[1]][c[2]] < h[c[1]][c[2]]
              /\ \A d \in E : RowMajor(d, n) < RowMajor(c, n)
                                 => a[d[1]][d[2]] = h[d[1]][d[2]]

\* C9: when bruteForceSolver returns true on a valid partial grid, the grid
\* it leaves is the completion that is smallest when the initially empty
\* cells are read in row-major order.
C9_FirstIsSmallest ==
    (Returned /\ isSolved = "true" /\ IsValidPartial(board0, size, boxSize)) =>
        /\ board \in Completions(board0, size)
        /\ \A h \in Completions(board0, size) : LexLeq(board, h, board0, size)

\* a successful call on a grid with several completions
C9_Witness ==
    /\ Returned
    /\ isSolved = "true"
    /\ IsValidPartial(board0, size, boxSize)
    /\ Cardinality(Completions(board0, size)) > 1

\* C10: when bruteForceSolver returns false, or the generator's solveBoard
\* returns false, the grid is cell for cell the grid at call start.
C10_FailureRestores ==
    ((Returned /\ isSolved = "false") \/ (SolveBoardReturned /\ ret = "false"))
        => board = board0

\* a failed call that had placed digits
C10_Witness ==
    /\ Returned
    /\ isSolved = "false"
    /\ cnt.place > 1
    /\ cnt.given > 0

=============================================================================
